---- MODULE Spec2Model ----
(***************************************************************************)
(* Model of MailDocumentParser.parse                                       *)
(* (org_toweosp_paperlessngx_mail_parser/parsers.py).                      *)
(*                                                                         *)
(* parse is one sequential procedure; pc is its position.  Strings are     *)
(* sequences of tokens: the token "\n" is one newline character, every     *)
(* other token is a run of non-newline characters.  Files of self.tempdir  *)
(* are a function from file name to content.  The external collaborators  *)
(* (Tika, Gotenberg, Tesseract, Ghostscript) answer nondeterministically.  *)
(***************************************************************************)
EXTENDS Integers, Sequences, FiniteSets, TLC

\* Largest number of attachments of a message.
MaxAtt == 2

(***************************************************************************)
(* Values.                                                                 *)
(***************************************************************************)
\* Python's None where a string is expected (DocumentParser.text before parse).
None == <<"<None>">>
\* Python's None / an unbound local where a path is expected.
NoPath == "<None>"
NL == "\n"

\* MailRule.PdfLayout
TEXT_HTML == "TEXT_HTML"
HTML_TEXT == "HTML_TEXT"
HTML_ONLY == "HTML_ONLY"
TEXT_ONLY == "TEXT_ONLY"
PdfLayouts == {TEXT_HTML, HTML_TEXT, HTML_ONLY, TEXT_ONLY}

\* MailRule.ConsumptionScope; NoScope is the local's initial None.
EVERYTHING == "EVERYTHING"
ATTACHMENTS_ONLY == "ATTACHMENTS_ONLY"
NoScope == "<None>"
ConsumptionScopes == {EVERYTHING, ATTACHMENTS_ONLY}

PKCS7 == "application/x-pkcs7-signature"
PDF_MIME == "application/pdf"

(***************************************************************************)
(* String helpers (token sequences).                                       *)
(***************************************************************************)
\* sep.join(parts), parts a sequence of strings
RECURSIVE Join(_, _)
Join(parts, sep) ==
    IF parts = <<>> THEN <<>>
    ELSE IF Len(parts) = 1 THEN parts[1]
    ELSE parts[1] \o sep \o Join(Tail(parts), sep)

IsPrefix(p, s) == Len(p) <= Len(s) /\ SubSeq(s, 1, Len(p)) = p

\* str.strip() on a string whose only whitespace is newlines
RECURSIVE LStrip(_)
LStrip(s) == IF s # <<>> /\ Head(s) = NL THEN LStrip(Tail(s)) ELSE s

RECURSIVE RStrip(_)
RStrip(s) ==
    IF s # <<>> /\ s[Len(s)] = NL THEN RStrip(SubSeq(s, 1, Len(s) - 1)) ELSE s

Strip(s) == RStrip(LStrip(s))

\* index of the first newline of s, 0 when there is none
FirstNL(s) ==
    IF \E i \in 1..Len(s) : s[i] = NL
    THEN CHOOSE i \in 1..Len(s) : s[i] = NL /\ \A j \in 1..(i - 1) : s[j] # NL
    ELSE 0

\* str.splitlines()
RECURSIVE SplitLines(_)
SplitLines(s) ==
    IF s = <<>> THEN <<>>
    ELSE IF FirstNL(s) = 0 THEN <<s>>
    ELSE <<SubSeq(s, 1, FirstNL(s) - 1)>> \o SplitLines(SubSeq(s, FirstNL(s) + 1, Len(s)))

(***************************************************************************)
(* Messages (imap_tools MailMessage / MailAttachment).                     *)
(***************************************************************************)
Att(filename, payload, content_type, disposition, content_id, size) ==
    [filename |-> filename, payload |-> payload, content_type |-> content_type,
     content_disposition |-> disposition, content_id |-> content_id, size |-> size]

\* The attachments a message is built from: a PDF, an office document, an
\* image, an inline image, a detached signature, an office document without
\* a filename.
PdfAtt == Att("scan.pdf", <<"%PDF", "scan">>, "application/octet-stream", "attachment", "", 3)
DocAtt == Att("letter.doc", <<"DOC", "letter">>, "application/msword", "attachment", "", 5)
PngAtt == Att("photo.png", <<"PNG", "photo">>, "image/png", "attachment", "", 7)
InlineAtt == Att("logo.png", <<"PNG", "logo">>, "image/png", "inline", "img1", 1)
SigAtt == Att("smime.p7s", <<"DER", "sig">>, PKCS7, "attachment", "", 2)
NamelessAtt == Att("", <<"DOC", "nameless">>, "application/msword", "attachment", "", 4)
AttachmentPool == {PdfAtt, DocAtt, PngAtt, InlineAtt, SigAtt, NamelessAtt}

AttachmentLists(n) == UNION {[1..k -> AttachmentPool] : k \in 0..n}

TextBodies == {<<>>, <<"Hello", NL, NL, "Thanks">>}
HtmlBodies == {<<>>, <<"<p>Hello</p>", "cid:img1", "{page:A4}">>}

Message(text, html, atts) ==
    [from_values |-> "alice@example.org",
     subject |-> "Invoice",
     to_values |-> <<"bob@example.org">>,
     cc_values |-> <<>>,
     date |-> [naive |-> TRUE, stamp |-> "01.02.2024 10:00"],
     text |-> text, html |-> html, attachments |-> atts]

(***************************************************************************)
(* Pure helpers of parse.                                                  *)
(***************************************************************************)
\* humanize.naturalsize(size, binary=True, format='%.2f') below 1 KiB
naturalsize(n) == ToString(n) \o (IF n = 1 THEN " Byte" ELSE " Bytes")

\* django.utils.timezone.make_aware
make_aware(d) == [d EXCEPT !.naive = FALSE]

\* Mutant: the header's comprehension forgets the disposition.
header_real_attachments_withInline(atts) ==
    SelectSeq(atts, LAMBDA att : att.content_type # PKCS7)

\* get_header's list comprehension (lines 113-118)
header_real_attachments(atts) ==
    SelectSeq(atts, LAMBDA att : /\ att.content_disposition = "attachment"
                                 /\ att.content_type # PKCS7)

\* create_attachments_pdfs' list comprehension (lines 253-258)
RECURSIVE real_attachments(_)
real_attachments(atts) ==
    IF atts = <<>> THEN <<>>
    ELSE (IF Head(atts).content_disposition = "attachment"
             /\ Head(atts).content_type # PKCS7
          THEN <<Head(atts)>> ELSE <<>>) \o real_attachments(Tail(atts))

AttachmentSummary(a) == <<a.filename, " (", naturalsize(a.size), ")">>

Addresses(values) == Join([i \in 1..Len(values) |-> <<values[i]>>], <<",">>)

\* Mutant: the CC entry is appended after the date.
get_header_ccAfterDate(p) ==
    LET date == IF p.date.naive THEN make_aware(p.date) ELSE p.date
        real == header_real_attachments(p.attachments)
    IN  << <<"From", IF p.from_values # "" THEN <<p.from_values>>
                     ELSE <<"(NO SENDER PROVIDED)">> >>,
           <<"Subject", <<p.subject>> >>,
           <<"To", Addresses(p.to_values)>> >>
        \o << <<"Date", <<date.stamp>> >> >>
        \o (IF p.cc_values # <<>> THEN << <<"CC", Addresses(p.cc_values)>> >> ELSE <<>>)
        \o (IF real # <<>>
            THEN << <<"Attachments",
                      Join([i \in 1..Len(real) |-> AttachmentSummary(real[i])], <<", ">>)>> >>
            ELSE <<>>)

\* get_header: the ordered (label, value) pairs
get_header(p) ==
    LET date == IF p.date.naive THEN make_aware(p.date) ELSE p.date
        real == header_real_attachments(p.attachments)
    IN  << <<"From", IF p.from_values # "" THEN <<p.from_values>>
                     ELSE <<"(NO SENDER PROVIDED)">> >>,
           <<"Subject", <<p.subject>> >>,
           <<"To", Addresses(p.to_values)>> >>
        \o (IF p.cc_values # <<>> THEN << <<"CC", Addresses(p.cc_values)>> >> ELSE <<>>)
        \o << <<"Date", <<date.stamp>> >> >>
        \o (IF real # <<>>
            THEN << <<"Attachments",
                      Join([i \in 1..Len(real) |-> AttachmentSummary(real[i])], <<", ">>)>> >>
            ELSE <<>>)

\* create_txt_header: "label: value\n" per entry
RECURSIVE create_txt_header(_)
create_txt_header(header) ==
    IF header = <<>> THEN <<>>
    ELSE <<Head(header)[1], ": ">> \o Head(header)[2] \o <<NL>>
         \o create_txt_header(Tail(header))

\* Mutant: re.sub(r"\n\n", r"\n", text), which halves a run of newlines.
RECURSIVE strip_duplicate_newlines_pairs(_)
strip_duplicate_newlines_pairs(t) ==
    IF t = <<>> THEN <<>>
    ELSE IF Len(t) >= 2 /\ t[1] = NL /\ t[2] = NL
    THEN <<NL>> \o strip_duplicate_newlines_pairs(Tail(Tail(t)))
    ELSE <<Head(t)>> \o strip_duplicate_newlines_pairs(Tail(t))

\* strip_duplicate_newlines: re.sub(r"(\n)+", r"\n", text)
RECURSIVE strip_duplicate_newlines(_)
strip_duplicate_newlines(t) ==
    IF t = <<>> THEN <<>>
    ELSE IF Head(t) = NL
    THEN <<NL>> \o strip_duplicate_newlines(LStrip(t))
    ELSE <<Head(t)>> \o strip_duplicate_newlines(Tail(t))

\* get_mail_only_content; response is Tika's content for parsed.html, read
\* only when the message has no text body
get_mail_only_content(p, response) ==
    LET ret == IF p.text # <<>> THEN p.text
               ELSE IF response # None /\ response # <<>> THEN response ELSE <<>>
    IN  strip_duplicate_newlines(ret)

\* get_mail_and_attachments_content; content is Tika's content for the raw
\* message
get_mail_and_attachments_content(p, content) ==
    LET ret_splitted == SplitLines(Strip(content))
        ret == IF p.subject # "" /\ content # None /\ content # <<>>
                  /\ Len(ret_splitted) > 1
               THEN Join(Tail(ret_splitted), <<NL>>)
               ELSE <<>>
    IN  strip_duplicate_newlines(ret)

\* line 356: self.text = content + mail_content if mail_content else ""
InitialText(content, mail_content) ==
    IF mail_content # <<>> THEN content \o mail_content ELSE <<>>

\* magic.from_buffer(payload, mime=True): the type the bytes show
magic_from_buffer(payload) ==
    IF payload = <<>> THEN "application/x-empty"
    ELSE IF Head(payload) = "%PDF" THEN PDF_MIME
    ELSE IF Head(payload) = "PNG" THEN "image/png"
    ELSE IF Head(payload) = "DOC" THEN "application/msword"
    ELSE "application/octet-stream"

\* tesseract_consumer_declaration(None)['mime_types']
TesseractMimeTypes ==
    {PDF_MIME, "image/jpeg", "image/png", "image/tiff", "image/gif",
     "image/bmp", "image/webp", "image/heic"}

(***************************************************************************)
(* Collaborators: what each may answer.                                    *)
(***************************************************************************)
\* An exception raised by a collaborator call.
Raised == <<"<raised>">>

\* TikaClient...from_buffer(parsed.html, "text/html").content
TikaOutcomes(html) ==
    IF html = <<>> THEN {Raised, None, <<>>}
    ELSE {Raised, None, <<>>, <<"Hello", NL, NL, "there">>}

\* Mutant: the merge route answers an empty request like any other.
MergeOutcomes_acceptsEmpty(pdfs) == BOOLEAN

\* Gotenberg's merge route (merge_pdfs): a request without any PDF is
\* rejected, any other request may succeed or fail.
MergeOutcomes(pdfs) == IF pdfs = <<>> THEN {FALSE} ELSE BOOLEAN

\* settings -> self._settings_to_gotenberg_pdfa(): a PdfAFormat or None
NoFormat == "<None>"
PdfAFormats == {NoFormat, "A1a", "A2b", "A3b"}

(***************************************************************************)
(* Files of self.tempdir.                                                  *)
(***************************************************************************)
NoFiles == [n \in {} |-> <<>>]
Exists(td, name) == name \in DOMAIN td
WriteFile(td, name, content) ==
    [n \in DOMAIN td \cup {name} |-> IF n = name THEN content ELSE td[n]]

\* str(uuid.uuid4()): the n-th fresh name of the invocation
Uuid(n) == "uuid" \o ToString(n)

(***************************************************************************)
(* State.                                                                  *)
(***************************************************************************)
VARIABLES
    parsed,             \* MailMessage.from_bytes(document_path.read_bytes())
    mailrule_id,        \* parse's argument; 0 stands for None
    rule,               \* MailRule.objects.get(pk=mailrule_id)
    default_layout,     \* settings.EMAIL_PARSE_DEFAULT_LAYOUT
    pc,                 \* position in parse
    error,              \* the exception parse ended with, "" when none
    pdf_layout, consumption_scope,
    text,               \* self.text
    archive_path,       \* self.archive_path
    archive_writes,     \* number of assignments to self.archive_path
    mail_content,
    tempdir,
    text_pdf, html_pdf, pdfs_to_merge, final_pdf,
    att_idx,            \* create_attachments_pdfs' loop position
    filenames,          \* the filename each iteration used
    pdfs,
    attachments_pdf,
    uuid_count,
    pdf_a_format,
    tika_log, render_log, ocr_log, convert_log, merge_log, gs_log

vars == <<parsed, mailrule_id, rule, default_layout, pc, error, pdf_layout,
          consumption_scope, text, archive_path, archive_writes, mail_content,
          tempdir, text_pdf, html_pdf, pdfs_to_merge, final_pdf, att_idx,
          filenames, pdfs, attachments_pdf, uuid_count, pdf_a_format,
          tika_log, render_log, ocr_log, convert_log, merge_log, gs_log>>

inputs == <<parsed, mailrule_id, rule, default_layout>>
logs == <<tika_log, render_log, ocr_log, convert_log, merge_log, gs_log>>

\* Largest number of attachments of a message tried under every mail rule.
MaxAttAnyRule == 1

\* The row a rule id that parse is not given would name.
UnusedRule == [pdf_layout |-> HTML_ONLY, consumption_scope |-> EVERYTHING]

Configs ==
    {[mailrule_id |-> 0, rule |-> UnusedRule, default_layout |-> l] : l \in PdfLayouts}
    \cup {[mailrule_id |-> 1,
           rule |-> [pdf_layout |-> l, consumption_scope |-> s],
           default_layout |-> TEXT_HTML] : l \in PdfLayouts, s \in ConsumptionScopes}

\* Every configuration and body with few attachments; many attachments
\* under the default configuration.
Inputs ==
    {[config |-> c, message |-> Message(t, h, a)] :
        c \in Configs, t \in TextBodies, h \in HtmlBodies,
        a \in AttachmentLists(MaxAttAnyRule)}
    \cup {[config |-> [mailrule_id |-> 0, rule |-> UnusedRule, default_layout |-> TEXT_HTML],
           message |-> Message(t, <<>>, a)] :
        t \in TextBodies \ {<<>>}, a \in AttachmentLists(MaxAtt)}

\* The state when parse is entered with one of the given inputs.
Start(given) ==
    /\ \E i \in given :
        /\ parsed = i.message
        /\ mailrule_id = i.config.mailrule_id
        /\ rule = i.config.rule
        /\ default_layout = i.config.default_layout
    /\ pc = "start"
    /\ error = ""
    /\ pdf_layout = "<None>"
    /\ consumption_scope = NoScope
    /\ text = None
    /\ archive_path = NoPath
    /\ archive_writes = 0
    /\ mail_content = <<>>
    /\ tempdir = NoFiles
    /\ text_pdf = NoPath
    /\ html_pdf = NoPath
    /\ pdfs_to_merge = <<>>
    /\ final_pdf = NoPath
    /\ att_idx = 0
    /\ filenames = <<>>
    /\ pdfs = <<>>
    /\ attachments_pdf = NoPath
    /\ uuid_count = 0
    /\ pdf_a_format = NoFormat
    /\ tika_log = <<>>
    /\ render_log = <<>>
    /\ ocr_log = <<>>
    /\ convert_log = <<>>
    /\ merge_log = <<>>
    /\ gs_log = <<>>

Init == Start(Inputs)

\* An exception leaves parse: nothing after the raising call runs.
Fail(reason) ==
    /\ pc' = "failed"
    /\ error' = reason

(***************************************************************************)
(* Lines 73-85 and 344-356: the policies, then self.text.                  *)
(***************************************************************************)
\* Mutant: the rule's layout is not read.
ResolveLayout_default(id, r, dflt) == dflt

\* lines 76-85; "if mailrule_id:" takes None and 0 alike
ResolveLayout(id, r, dflt) == IF id # 0 THEN r.pdf_layout ELSE dflt
ResolveScope(id, r) == IF id # 0 THEN r.consumption_scope ELSE NoScope

ExtractText ==
    /\ pc = "start"
    /\ pdf_layout' = ResolveLayout(mailrule_id, rule, default_layout)
    /\ consumption_scope' = ResolveScope(mailrule_id, rule)
    /\ \E response \in (IF parsed.text # <<>> THEN {None} ELSE TikaOutcomes(parsed.html)) :
        /\ tika_log' = IF parsed.text # <<>> THEN tika_log
                       ELSE Append(tika_log, [buffer |-> "parsed.html", content |-> response])
        /\ IF response = Raised
           THEN /\ Fail("text extraction")
                /\ UNCHANGED <<text, mail_content>>
           ELSE /\ mail_content' = get_mail_only_content(parsed, response)
                /\ text' = InitialText(create_txt_header(get_header(parsed)),
                                       get_mail_only_content(parsed, response))
                /\ pc' = "text_rendition"
                /\ error' = error
    /\ UNCHANGED <<inputs, archive_path, archive_writes, tempdir, text_pdf, html_pdf,
                   pdfs_to_merge, final_pdf, att_idx, filenames, pdfs, attachments_pdf,
                   uuid_count, pdf_a_format, render_log, ocr_log, convert_log,
                   merge_log, gs_log>>

(***************************************************************************)
(* Lines 163-247 and 363-367: the renditions of the body.                  *)
(***************************************************************************)
\* create_html_header: the template is given the ordered pairs
RECURSIVE create_html_header(_)
create_html_header(header) ==
    IF header = <<>> THEN <<>>
    ELSE <<"<tr><td>", Head(header)[1], "</td><td>">> \o Head(header)[2]
         \o <<"</td></tr>">> \o create_html_header(Tail(header))

\* str.replace(old, new) for a one-token old
Replace(s, old, new) == [i \in 1..Len(s) |-> IF s[i] = old THEN new ELSE s[i]]

\* re.sub(r"\{page:.*?\}", "", content): the page rules are whole tokens
RECURSIVE StripPageRules(_)
StripPageRules(s) ==
    IF s = <<>> THEN <<>>
    ELSE (IF Head(s) = "{page:A4}" THEN <<>> ELSE <<Head(s)>>) \o StripPageRules(Tail(s))

\* lines 204-217: the inline attachments that carry a content id
RECURSIVE InlineWithId(_)
InlineWithId(atts) ==
    IF atts = <<>> THEN <<>>
    ELSE (IF Head(atts).content_disposition = "inline" /\ Head(atts).content_id # ""
          THEN <<Head(atts)>> ELSE <<>>) \o InlineWithId(Tail(atts))

RECURSIVE WriteInline(_, _)
WriteInline(td, inl) ==
    IF inl = <<>> THEN td
    ELSE WriteInline(WriteFile(td, Head(inl).content_id, Head(inl).payload), Tail(inl))

RECURSIVE ReplaceCids(_, _)
ReplaceCids(content, inl) ==
    IF inl = <<>> THEN content
    ELSE ReplaceCids(Replace(content, "cid:" \o Head(inl).content_id, Head(inl).content_id),
                     Tail(inl))

\* Mutant: the text rendition is built under every layout.
BuildsText_always(layout) == TRUE

\* line 363 and line 366: which renditions parse asks for
BuildsText(layout) == layout # HTML_ONLY
BuildsHtml(layout) == layout # TEXT_ONLY

Rendered(index) == <<"pdf of ", index>>

\* line 364 with create_text_mail_pdf (lines 169-195)
create_text_mail_pdf ==
    /\ pc = "text_rendition"
    /\ IF ~BuildsText(pdf_layout)
       THEN /\ pc' = "html_rendition"
            /\ UNCHANGED <<error, tempdir, text_pdf, render_log>>
       ELSE IF parsed.text = <<>>
       THEN /\ text_pdf' = "text-mail.pdf"
            /\ pc' = "html_rendition"
            /\ UNCHANGED <<error, tempdir, render_log>>
       ELSE LET page == create_html_header(get_header(parsed))
                        \o <<"<tt>">> \o Replace(parsed.text, NL, "<br>") \o <<"</tt>">>
                td1 == WriteFile(tempdir, "text-mail.html", page)
            IN  \E ok \in BOOLEAN :
                  /\ render_log' = Append(render_log,
                                          [index |-> "text-mail.html", resources |-> <<>>, ok |-> ok])
                  /\ IF ok
                     THEN /\ tempdir' = WriteFile(td1, "text-mail.pdf", Rendered("text-mail.html"))
                          /\ text_pdf' = "text-mail.pdf"
                          /\ pc' = "html_rendition"
                          /\ error' = error
                     ELSE /\ tempdir' = td1
                          /\ Fail("rendering the text body")
                          /\ UNCHANGED text_pdf
    /\ UNCHANGED <<inputs, pdf_layout, consumption_scope, text, archive_path,
                   archive_writes, mail_content, html_pdf, pdfs_to_merge, final_pdf,
                   att_idx, filenames, pdfs, attachments_pdf, uuid_count, pdf_a_format,
                   tika_log, ocr_log, convert_log, merge_log, gs_log>>

\* line 367 with create_html_mail_pdf (lines 197-247)
create_html_mail_pdf ==
    /\ pc = "html_rendition"
    /\ IF ~BuildsHtml(pdf_layout)
       THEN /\ pc' = "select"
            /\ UNCHANGED <<error, tempdir, html_pdf, render_log>>
       ELSE IF parsed.html = <<>>
       THEN /\ html_pdf' = "html-mail.pdf"
            /\ pc' = "select"
            /\ UNCHANGED <<error, tempdir, render_log>>
       ELSE LET inl == InlineWithId(parsed.attachments)
                content == StripPageRules(ReplaceCids(parsed.html, inl))
                td1 == WriteFile(WriteInline(tempdir, inl), "html-mail.html",
                                 create_html_header(get_header(parsed)) \o content)
            IN  \E ok \in BOOLEAN :
                  /\ render_log' = Append(render_log,
                                          [index |-> "html-mail.html",
                                           resources |-> [i \in 1..Len(inl) |-> inl[i].content_id],
                                           ok |-> ok])
                  /\ IF ok
                     THEN /\ tempdir' = WriteFile(td1, "html-mail.pdf", Rendered("html-mail.html"))
                          /\ html_pdf' = "html-mail.pdf"
                          /\ pc' = "select"
                          /\ error' = error
                     ELSE /\ tempdir' = td1
                          /\ Fail("rendering the HTML body")
                          /\ UNCHANGED html_pdf
    /\ UNCHANGED <<inputs, pdf_layout, consumption_scope, text, archive_path,
                   archive_writes, mail_content, text_pdf, pdfs_to_merge, final_pdf,
                   att_idx, filenames, pdfs, attachments_pdf, uuid_count, pdf_a_format,
                   tika_log, ocr_log, convert_log, merge_log, gs_log>>

(***************************************************************************)
(* Lines 369-388: the body group and its merge.                            *)
(***************************************************************************)
\* Mutant: TEXT_HTML keeps both renditions, text first.
SelectBodyGroup_both(layout, tp, text_exists, hp, html_exists) ==
    CASE layout = TEXT_HTML ->
            (IF text_exists THEN <<tp>> ELSE <<>>) \o (IF html_exists THEN <<hp>> ELSE <<>>)
      [] layout = HTML_TEXT ->
            IF html_exists THEN <<hp>> ELSE IF text_exists THEN <<tp>> ELSE <<>>
      [] layout = HTML_ONLY -> IF html_exists THEN <<hp>> ELSE <<>>
      [] layout = TEXT_ONLY -> IF text_exists THEN <<tp>> ELSE <<>>
      [] OTHER -> <<>>

\* The match of lines 370-386 on text_pdf.exists() and html_pdf.exists().
SelectBodyGroup(layout, tp, text_exists, hp, html_exists) ==
    CASE layout = TEXT_HTML ->
            IF text_exists THEN <<tp>> ELSE IF html_exists THEN <<hp>> ELSE <<>>
      [] layout = HTML_TEXT ->
            IF html_exists THEN <<hp>> ELSE IF text_exists THEN <<tp>> ELSE <<>>
      [] layout = HTML_ONLY -> IF html_exists THEN <<hp>> ELSE <<>>
      [] layout = TEXT_ONLY -> IF text_exists THEN <<tp>> ELSE <<>>
      [] OTHER -> <<>>

SelectBody ==
    /\ pc = "select"
    /\ pdfs_to_merge' = SelectBodyGroup(pdf_layout, text_pdf, Exists(tempdir, text_pdf),
                                        html_pdf, Exists(tempdir, html_pdf))
    /\ pc' = "merge_body"
    /\ UNCHANGED <<inputs, error, pdf_layout, consumption_scope, text, archive_path,
                   archive_writes, mail_content, tempdir, text_pdf, html_pdf, final_pdf,
                   att_idx, filenames, pdfs, attachments_pdf, uuid_count, pdf_a_format,
                   logs>>

Merged(names) == <<"merge of">> \o names

\* line 388: final_pdf = merge_pdfs(pdfs_to_merge)
MergeBody ==
    /\ pc = "merge_body"
    /\ uuid_count' = uuid_count + 1
    /\ \E ok \in MergeOutcomes(pdfs_to_merge) :
        /\ merge_log' = Append(merge_log, [pdfs |-> pdfs_to_merge, ok |-> ok,
                                           out |-> Uuid(uuid_count + 1) \o ".pdf"])
        /\ IF ok
           THEN /\ tempdir' = WriteFile(tempdir, Uuid(uuid_count + 1) \o ".pdf",
                                        Merged(pdfs_to_merge))
                /\ final_pdf' = Uuid(uuid_count + 1) \o ".pdf"
                /\ pc' = "scope"
                /\ error' = error
           ELSE /\ Fail(IF pdfs_to_merge = <<>> THEN "merging an empty body group"
                        ELSE "merging the body group")
                /\ UNCHANGED <<tempdir, final_pdf>>
    /\ UNCHANGED <<inputs, pdf_layout, consumption_scope, text, archive_path,
                   archive_writes, mail_content, text_pdf, html_pdf, pdfs_to_merge,
                   att_idx, filenames, pdfs, attachments_pdf, pdf_a_format,
                   tika_log, render_log, ocr_log, convert_log, gs_log>>

(***************************************************************************)
(* Lines 249-343 and 389-398: the attachments.                             *)
(***************************************************************************)
\* create_dummy_pdf (lines 310-342): the note is written, then rendered;
\* a failed rendering raises ParseError.
create_dummy_pdf(td, uc, message, ok) ==
    LET name == Uuid(uc + 1)
        td1 == WriteFile(td, name \o ".html", message)
    IN  [ok |-> ok,
         path |-> name \o ".pdf",
         tempdir |-> IF ok THEN WriteFile(td1, name \o ".pdf", Rendered(name \o ".html"))
                     ELSE td1,
         uuid_count |-> uc + 1,
         render |-> <<[index |-> name \o ".html", resources |-> <<>>, ok |-> ok]>>]

\* lines 277 and 292
Section(filename, ocr_text) ==
    <<NL, NL, "= Content attachment: ", filename, " =", NL>> \o ocr_text

OcrKinds == {"raises", "empty", "text"}
OcrText(kind, path) == IF kind = "text" THEN <<"ocr of ", path>> ELSE <<>>

\* line 298
NotConvertedNote(a) ==
    <<"The attachment (filename: <b>", IF a.filename # "" THEN a.filename ELSE "unknown",
      "</b> content-type: <b>", a.content_type, "</b>) could not be converted to PDF.">>

\* line 273: is the original payload handed to the OCR parser
OcrOfOriginal(mimetype) == mimetype \in TesseractMimeTypes

\* Mutant: the except branch leaves the slot out.
SlotOnFailure_dropped(ps, dummy) == ps

\* line 298: the except branch fills the slot with the note's PDF
SlotOnFailure(ps, dummy) == Append(ps, dummy)

\* One iteration of the loop of lines 260-298 for attachment a (the idx-th
\* real one), given what the OCR parser answers for the original (o1), the
\* conversion (conv), the OCR parser for the converted file (o2) and the
\* rendering of the note (dok).  raised is "" when the iteration completes.
AttachmentStep(a, idx, txt, td, uc, ps, o1, conv, o2, dok) ==
    LET filename == IF a.filename # "" THEN a.filename ELSE Uuid(uc + 1)
        uc1 == IF a.filename # "" THEN uc ELSE uc + 1
        path == filename
        td1 == WriteFile(td, path, a.payload)
        mimetype == magic_from_buffer(a.payload)
        first == OcrOfOriginal(mimetype)
        log1 == IF first THEN <<[att |-> idx, path |-> path, kind |-> o1]>> ELSE <<>>
        txt1 == IF first /\ o1 = "text" THEN txt \o Section(filename, OcrText(o1, path))
                ELSE txt
        path_pdf == filename \o ".pdf"
        td2 == WriteFile(td1, path_pdf, <<"pdf of ">> \o td1[path])
        log2 == log1 \o <<[att |-> idx, path |-> path_pdf, kind |-> o2]>>
        txt2 == IF o2 = "text" THEN txt1 \o Section(filename, OcrText(o2, path_pdf))
                ELSE txt1
        caught == ~conv \/ o2 = "raises"
        dummy == create_dummy_pdf(IF conv THEN td2 ELSE td1, uc1, NotConvertedNote(a), dok)
        base == [raised |-> "", filename |-> filename, text |-> txt1, tempdir |-> td1,
                 uuid_count |-> uc1, pdfs |-> ps, ocr |-> log1, convert |-> <<>>,
                 render |-> <<>>]
        conv_log == <<[att |-> idx, path |-> path, ok |-> conv]>>
    IN  IF first /\ o1 = "raises"
        THEN [base EXCEPT !.raised = "OCR of an attachment"]
        ELSE IF mimetype = PDF_MIME
        THEN [base EXCEPT !.pdfs = Append(ps, path)]
        ELSE IF ~caught
        THEN [base EXCEPT !.text = txt2, !.tempdir = td2, !.pdfs = Append(ps, path_pdf),
                          !.ocr = log2, !.convert = conv_log]
        ELSE [base EXCEPT !.raised = IF dummy.ok THEN "" ELSE "rendering a note",
                          !.tempdir = dummy.tempdir,
                          !.uuid_count = dummy.uuid_count,
                          !.pdfs = IF dummy.ok THEN SlotOnFailure(ps, dummy.path) ELSE ps,
                          !.ocr = IF conv THEN log2 ELSE log1,
                          !.convert = conv_log,
                          !.render = dummy.render]

\* Mutant: the scope is not looked at.
ProcessesAttachments_always(scope) == TRUE

\* line 389: are the attachments processed
ProcessesAttachments(scope) == scope # EVERYTHING

\* lines 389-390: enter create_attachments_pdfs
CheckScope ==
    /\ pc = "scope"
    /\ IF ProcessesAttachments(consumption_scope)
       THEN /\ pc' = "attachments"
            /\ att_idx' = 1
       ELSE /\ pc' = "pdfa"
            /\ UNCHANGED att_idx
    /\ UNCHANGED <<inputs, error, pdf_layout, consumption_scope, text, archive_path,
                   archive_writes, mail_content, tempdir, text_pdf, html_pdf,
                   pdfs_to_merge, final_pdf, filenames, pdfs, attachments_pdf,
                   uuid_count, pdf_a_format, logs>>

\* one iteration of the loop of create_attachments_pdfs
ProcessAttachment ==
    /\ pc = "attachments"
    /\ att_idx <= Len(real_attachments(parsed.attachments))
    /\ \E o1 \in OcrKinds, conv \in BOOLEAN, o2 \in OcrKinds, dok \in BOOLEAN :
        LET r == AttachmentStep(real_attachments(parsed.attachments)[att_idx], att_idx,
                                text, tempdir, uuid_count, pdfs, o1, conv, o2, dok)
        IN  /\ text' = r.text
            /\ tempdir' = r.tempdir
            /\ uuid_count' = r.uuid_count
            /\ pdfs' = r.pdfs
            /\ filenames' = Append(filenames, r.filename)
            /\ ocr_log' = ocr_log \o r.ocr
            /\ convert_log' = convert_log \o r.convert
            /\ render_log' = render_log \o r.render
            /\ IF r.raised # ""
               THEN /\ Fail(r.raised)
                    /\ UNCHANGED att_idx
               ELSE /\ att_idx' = att_idx + 1
                    /\ UNCHANGED <<pc, error>>
    /\ UNCHANGED <<inputs, pdf_layout, consumption_scope, archive_path, archive_writes,
                   mail_content, text_pdf, html_pdf, pdfs_to_merge, final_pdf,
                   attachments_pdf, pdf_a_format, tika_log, merge_log, gs_log>>

\* line 299 and line 391: create_attachments_pdfs returns, "if pdfs:"
ReturnAttachments ==
    /\ pc = "attachments"
    /\ att_idx > Len(real_attachments(parsed.attachments))
    /\ pc' = IF pdfs # <<>> THEN "merge_attachments" ELSE "pdfa"
    /\ UNCHANGED <<inputs, error, pdf_layout, consumption_scope, text, archive_path,
                   archive_writes, mail_content, tempdir, text_pdf, html_pdf,
                   pdfs_to_merge, final_pdf, att_idx, filenames, pdfs, attachments_pdf,
                   uuid_count, pdf_a_format, logs>>

\* str(e) of the merge collaborator's exception
MergeErrorDetail == "gotenberg: the PDFs could not be merged"

\* line 397
NotMergedNote(detail) == <<"The attachments could not be converted to PDF: ", detail>>

\* lines 394-397: the attachments document, or the note that replaces it
MergeAttachments ==
    /\ pc = "merge_attachments"
    /\ \E ok \in MergeOutcomes(pdfs), dok \in BOOLEAN :
        LET merged == Uuid(uuid_count + 1) \o ".pdf"
            dummy == create_dummy_pdf(tempdir, uuid_count + 1,
                                      NotMergedNote(MergeErrorDetail), dok)
        IN  /\ merge_log' = Append(merge_log, [pdfs |-> pdfs, ok |-> ok, out |-> merged])
            /\ IF ok
               THEN /\ tempdir' = WriteFile(tempdir, merged, Merged(pdfs))
                    /\ attachments_pdf' = merged
                    /\ uuid_count' = uuid_count + 1
                    /\ pc' = "merge_final"
                    /\ UNCHANGED <<error, render_log>>
               ELSE /\ tempdir' = dummy.tempdir
                    /\ uuid_count' = dummy.uuid_count
                    /\ render_log' = render_log \o dummy.render
                    /\ IF dummy.ok
                       THEN /\ attachments_pdf' = dummy.path
                            /\ pc' = "merge_final"
                            /\ error' = error
                       ELSE /\ Fail("rendering a note")
                            /\ UNCHANGED attachments_pdf
    /\ UNCHANGED <<inputs, pdf_layout, consumption_scope, text, archive_path,
                   archive_writes, mail_content, text_pdf, html_pdf, pdfs_to_merge,
                   final_pdf, att_idx, filenames, pdfs, pdf_a_format, tika_log,
                   ocr_log, convert_log, gs_log>>

\* Mutant: the attachments come first.
FinalMergeInputs_swapped(body, attachments) == <<attachments, body>>

\* line 398: the list handed to the last merge
FinalMergeInputs(body, attachments) == <<body, attachments>>

\* line 398: final_pdf = merge_pdfs([final_pdf, attachments_pdf])
MergeFinal ==
    /\ pc = "merge_final"
    /\ uuid_count' = uuid_count + 1
    /\ \E ok \in MergeOutcomes(FinalMergeInputs(final_pdf, attachments_pdf)) :
        /\ merge_log' = Append(merge_log,
                               [pdfs |-> FinalMergeInputs(final_pdf, attachments_pdf),
                                ok |-> ok, out |-> Uuid(uuid_count + 1) \o ".pdf"])
        /\ IF ok
           THEN /\ tempdir' = WriteFile(tempdir, Uuid(uuid_count + 1) \o ".pdf",
                                        Merged(FinalMergeInputs(final_pdf, attachments_pdf)))
                /\ final_pdf' = Uuid(uuid_count + 1) \o ".pdf"
                /\ pc' = "pdfa"
                /\ error' = error
           ELSE /\ Fail("merging body and attachments")
                /\ UNCHANGED <<tempdir, final_pdf>>
    /\ UNCHANGED <<inputs, pdf_layout, consumption_scope, text, archive_path,
                   archive_writes, mail_content, text_pdf, html_pdf, pdfs_to_merge,
                   att_idx, filenames, pdfs, attachments_pdf, pdf_a_format,
                   tika_log, render_log, ocr_log, convert_log, gs_log>>

(***************************************************************************)
(* Lines 400-434: PDF/A with Ghostscript, then the archive path.           *)
(***************************************************************************)
\* the match of lines 405-409 binds pdfa_number for these formats only
MappedFormats == {"A2b", "A3b"}
PdfaNumber(fmt) == IF fmt = "A2b" THEN 2 ELSE 3

\* Mutant: the paths are given to Ghostscript in the other order.
GsCommand_pathsSwapped(number, output, input) ==
    <<"gs", "-q", "-dPDFA=" \o ToString(number), "-dBATCH", "-dNOPAUSE",
      "-sColorConversionStrategy", "-sDEVICE=pdfwrite", "-o", input, output>>

\* lines 412-423
GsCommand(number, output, input) ==
    <<"gs", "-q", "-dPDFA=" \o ToString(number), "-dBATCH", "-dNOPAUSE",
      "-sColorConversionStrategy", "-sDEVICE=pdfwrite", "-o", output, input>>

\* Mutant: the exit status is ignored.
GsRaises_ignored(exit) == FALSE

\* lines 425-428: run_subprocess raises CalledProcessError on a non-zero
\* exit status, which parse turns into a ParseError
GsRaises(exit) == exit # 0

\* f"{cmd}": the command line as the message shows it
RECURSIVE CmdRepr(_)
CmdRepr(cmd) ==
    IF cmd = <<>> THEN ""
    ELSE "'" \o Head(cmd) \o "'" \o (IF Len(cmd) > 1 THEN ", " ELSE "") \o CmdRepr(Tail(cmd))

\* line 428: the ParseError raised for a failed Ghostscript run
GsFailure(cmd) == "PDF/A generation failed: [" \o CmdRepr(cmd) \o "]"

StandardsConversion ==
    /\ pc = "pdfa"
    /\ \E fmt \in PdfAFormats, exit \in {0, 1} :
        /\ pdf_a_format' = fmt
        /\ IF fmt = NoFormat
           THEN /\ pc' = "set_archive"
                /\ UNCHANGED <<error, final_pdf, tempdir, gs_log>>
           ELSE IF fmt \notin MappedFormats
           THEN /\ Fail("UnboundLocalError: pdfa_number")
                /\ UNCHANGED <<final_pdf, tempdir, gs_log>>
           ELSE /\ final_pdf' = "final_pdfa.pdf"
                /\ gs_log' = Append(gs_log,
                                    [cmd |-> GsCommand(PdfaNumber(fmt), "final_pdfa.pdf", final_pdf),
                                     exit |-> exit])
                /\ tempdir' = IF exit = 0
                              THEN WriteFile(tempdir, "final_pdfa.pdf",
                                             <<"PDF/A of ", final_pdf>>)
                              ELSE tempdir
                /\ IF GsRaises(exit)
                   THEN Fail(GsFailure(GsCommand(PdfaNumber(fmt), "final_pdfa.pdf",
                                                 final_pdf)))
                   ELSE /\ pc' = "set_archive"
                        /\ error' = error
    /\ UNCHANGED <<inputs, pdf_layout, consumption_scope, text, archive_path,
                   archive_writes, mail_content, text_pdf, html_pdf, pdfs_to_merge,
                   att_idx, filenames, pdfs, attachments_pdf, uuid_count,
                   tika_log, render_log, ocr_log, convert_log, merge_log>>

\* line 434
SetArchive ==
    /\ pc = "set_archive"
    /\ archive_path' = final_pdf
    /\ archive_writes' = archive_writes + 1
    /\ pc' = "done"
    /\ UNCHANGED <<inputs, error, pdf_layout, consumption_scope, text, mail_content,
                   tempdir, text_pdf, html_pdf, pdfs_to_merge, final_pdf, att_idx,
                   filenames, pdfs, attachments_pdf, uuid_count, pdf_a_format, logs>>

Next ==
    \/ ExtractText
    \/ create_text_mail_pdf
    \/ create_html_mail_pdf
    \/ SelectBody
    \/ MergeBody
    \/ CheckScope
    \/ ProcessAttachment
    \/ ReturnAttachments
    \/ MergeAttachments
    \/ MergeFinal
    \/ StandardsConversion
    \/ SetArchive

Spec == Init /\ [][Next]_vars

(***************************************************************************)
(* Messages whose attachments meet in self.tempdir: two attachments named  *)
(* scan.pdf, and one named scan, which is converted into scan.pdf.         *)
(***************************************************************************)
ScanCopyAtt == Att("scan.pdf", <<"%PDF", "copy">>, PDF_MIME, "attachment", "", 6)
ScanDocAtt == Att("scan", <<"DOC", "scan">>, "application/msword", "attachment", "", 8)
CollidingPool == {PdfAtt, ScanCopyAtt, ScanDocAtt}

CollidingInputs ==
    {[config |-> [mailrule_id |-> 0, rule |-> UnusedRule, default_layout |-> TEXT_HTML],
      message |-> Message(t, <<>>, a)] :
        t \in TextBodies \ {<<>>},
        a \in UNION {[1..k -> CollidingPool] : k \in 0..MaxAtt}}

InitColliding == Start(CollidingInputs)
SpecColliding == InitColliding /\ [][Next]_vars

(***************************************************************************)
(* Messages with and without a sender, with zero, one or two CC            *)
(* recipients and with a naive or an aware date.                           *)
(***************************************************************************)
Senders == {"", "alice@example.org"}
CcLists == {<<>>, <<"carol@example.org">>, <<"carol@example.org", "dave@example.org">>}
Dates == {[naive |-> n, stamp |-> "01.02.2024 10:00"] : n \in BOOLEAN}

HeaderInputs ==
    {[config |-> [mailrule_id |-> 0, rule |-> UnusedRule, default_layout |-> TEXT_HTML],
      message |-> [Message(t, <<>>, a) EXCEPT !.from_values = f, !.cc_values = c,
                                              !.date = d]] :
        t \in TextBodies \ {<<>>}, a \in AttachmentLists(MaxAttAnyRule),
        f \in Senders, c \in CcLists, d \in Dates}

InitHeader == Start(HeaderInputs)
SpecHeader == InitHeader /\ [][Next]_vars

(***************************************************************************)
(* Messages with every text body of a few characters, newlines and         *)
(* carriage returns among them.                                            *)
(***************************************************************************)
\* Largest length of such a text body.
MaxLen == 4

Characters == {"a", "\r", NL}
Strings == UNION {[1..k -> Characters] : k \in 0..MaxLen}

NewlineInputs ==
    {[config |-> [mailrule_id |-> 0, rule |-> UnusedRule, default_layout |-> TEXT_HTML],
      message |-> Message(t, <<>>, a)] :
        t \in Strings, a \in {<<>>, <<PdfAtt>>}}

InitNewlines == Start(NewlineInputs)
SpecNewlines == InitNewlines /\ [][Next]_vars

(***************************************************************************)
(* Properties.                                                             *)
(***************************************************************************)
RealAtts == real_attachments(parsed.attachments)
Header == create_txt_header(get_header(parsed))
TextRenditionExists == Exists(tempdir, "text-mail.pdf")
HtmlRenditionExists == Exists(tempdir, "html-mail.pdf")
BeforeBodyMerge == {"start", "text_rendition", "html_rendition", "select"}

\* name is a note rendered by create_dummy_pdf from message
IsNote(name, message) ==
    \E n \in 1..uuid_count :
        /\ name = Uuid(n) \o ".pdf"
        /\ Exists(tempdir, name)
        /\ Exists(tempdir, Uuid(n) \o ".html")
        /\ tempdir[Uuid(n) \o ".html"] = message

\* C1: the group handed to the first merge is, by layout: TEXT_HTML the text
\* rendition if it exists, else the HTML rendition if it exists, else
\* nothing; HTML_TEXT the HTML rendition, else the text rendition, else
\* nothing; HTML_ONLY the HTML rendition or nothing; TEXT_ONLY the text
\* rendition or nothing; never both renditions.
C1_BodyGroupFollowsLayout ==
    merge_log # <<>> =>
        LET g == merge_log[1].pdfs
            t == TextRenditionExists
            h == HtmlRenditionExists
        IN  /\ Len(g) <= 1
            /\ pdf_layout = TEXT_HTML =>
                 /\ t => g = <<"text-mail.pdf">>
                 /\ (~t /\ h) => g = <<"html-mail.pdf">>
                 /\ (~t /\ ~h) => g = <<>>
            /\ pdf_layout = HTML_TEXT =>
                 /\ h => g = <<"html-mail.pdf">>
                 /\ (~h /\ t) => g = <<"text-mail.pdf">>
                 /\ (~h /\ ~t) => g = <<>>
            /\ pdf_layout = HTML_ONLY => g = IF h THEN <<"html-mail.pdf">> ELSE <<>>
            /\ pdf_layout = TEXT_ONLY => g = IF t THEN <<"text-mail.pdf">> ELSE <<>>

\* C1 witness: both renditions exist under TEXT_HTML and the text rendition
\* alone was handed to the first merge.
C1_Witness ==
    /\ merge_log # <<>>
    /\ pdf_layout = TEXT_HTML
    /\ TextRenditionExists /\ HtmlRenditionExists
    /\ merge_log[1].pdfs = <<"text-mail.pdf">>

\* C2 (as claimed): a message with neither body and at least one real
\* attachment, with the attachments processed, never fails because its body
\* group is empty.
C2_EmptyBodyGroupNotFatal ==
    (/\ parsed.text = <<>> /\ parsed.html = <<>>
     /\ RealAtts # <<>>
     /\ ProcessesAttachments(consumption_scope))
    => ~(pc = "failed" /\ error = "merging an empty body group")

\* neither body is present, or the only present one is excluded by the layout
NoBodyForLayout ==
    /\ ~(BuildsText(pdf_layout) /\ parsed.text # <<>>)
    /\ ~(BuildsHtml(pdf_layout) /\ parsed.html # <<>>)

\* C3: for a message without real attachments whose body group is empty
\* (neither body present, or the present one excluded by the layout), parse
\* gets no further than the body merge: it fails there, and the archive
\* path is never set.
C3_NothingToMergeIsFatal ==
    (/\ pc \notin BeforeBodyMerge
     /\ pdfs_to_merge = <<>> \/ NoBodyForLayout
     /\ RealAtts = <<>>)
    => /\ pdfs_to_merge = <<>>
       /\ archive_path = NoPath
       /\ pc \in {"merge_body", "failed"}

\* C3 witness: HTML_ONLY, a text body but no HTML body, no attachments:
\* parse has failed at the body merge.
C3_Witness ==
    /\ pc = "failed"
    /\ error = "merging an empty body group"
    /\ pdf_layout = HTML_ONLY
    /\ parsed.text # <<>> /\ parsed.html = <<>>
    /\ RealAtts = <<>>
    /\ archive_path = NoPath

\* C4: archive_path is assigned at most once, and only as the last step:
\* after the body merge succeeded, after one slot per real attachment was
\* built and the last merge succeeded (when attachments are processed and
\* there are any), and after Ghostscript exited with 0 (when a PDF/A format
\* is set, and then the archive is Ghostscript's output); a failed parse has
\* not assigned it.
C4_ArchiveOnlyAtTheEnd ==
    /\ archive_writes <= 1
    /\ (pc = "failed" => archive_path = NoPath /\ archive_writes = 0)
    /\ (archive_path # NoPath =>
          /\ pc = "done" /\ error = "" /\ archive_writes = 1
          /\ merge_log # <<>> /\ merge_log[1].ok
          /\ \A i \in DOMAIN merge_log : i # 2 => merge_log[i].ok
          /\ (ProcessesAttachments(consumption_scope) /\ RealAtts # <<>>) =>
                /\ Len(pdfs) = Len(RealAtts)
                /\ Len(merge_log) = 3
          /\ (pdf_a_format # NoFormat) =>
                /\ Len(gs_log) = 1 /\ gs_log[1].exit = 0
                /\ archive_path = "final_pdfa.pdf"
          /\ (pdf_a_format = NoFormat) =>
                /\ gs_log = <<>>
                /\ archive_path = merge_log[Len(merge_log)].out
          /\ Exists(tempdir, archive_path))

\* C4 witness: a parse with attachments and PDF/A has assigned the archive.
C4_Witness ==
    /\ pc = "done"
    /\ archive_path = "final_pdfa.pdf"
    /\ Len(merge_log) = 3

\* C5 (as claimed): when parse has failed, self.text has not been set.
C5_NoTextAfterFailure == pc = "failed" => text = None

\* C6: when create_attachments_pdfs has returned, pdfs has one slot per real
\* attachment, in order: the i-th is the file the i-th attachment was
\* written to if that is a PDF, else its converted file, else a note naming
\* the attachment.
C6_OneSlotPerAttachment ==
    (att_idx = Len(RealAtts) + 1) =>
        /\ Len(pdfs) = Len(RealAtts)
        /\ Len(filenames) = Len(RealAtts)
        /\ \A i \in 1..Len(RealAtts) :
             LET a == RealAtts[i]
             IN  /\ a.filename # "" => filenames[i] = a.filename
                 /\ IF magic_from_buffer(a.payload) = PDF_MIME
                    THEN pdfs[i] = filenames[i]
                    ELSE \/ /\ pdfs[i] = filenames[i] \o ".pdf"
                            /\ \E k \in DOMAIN convert_log :
                                 convert_log[k].att = i /\ convert_log[k].ok
                         \/ IsNote(pdfs[i], NotConvertedNote(a))

\* C6 witness: two real attachments, the conversion of the first failed,
\* the second was converted, and create_attachments_pdfs has returned.
C6_Witness ==
    /\ pc = "merge_attachments"
    /\ Len(RealAtts) = 2
    /\ Len(convert_log) = 2
    /\ ~convert_log[1].ok /\ convert_log[2].ok
    /\ IsNote(pdfs[1], NotConvertedNote(RealAtts[1]))
    /\ pdfs[2] = filenames[2] \o ".pdf"

AttachmentsMergeFailed == Len(merge_log) >= 2 /\ ~merge_log[2].ok

\* C7 (as claimed): after a failed merge of the attachments group parse
\* does not abort before the last merge is attempted, with the inputs
\* [body document, note]; the two merges are attempted only for a non-empty
\* group.
C7_MergeFailureNeverAborts ==
    /\ (AttachmentsMergeFailed /\ pc = "failed") => Len(merge_log) = 3
    /\ (AttachmentsMergeFailed /\ Len(merge_log) = 3) =>
          /\ merge_log[3].pdfs = <<merge_log[1].out, attachments_pdf>>
          /\ IsNote(attachments_pdf, NotMergedNote(MergeErrorDetail))
    /\ Len(merge_log) >= 2 =>
          /\ pdfs # <<>> /\ merge_log[2].pdfs = pdfs
          /\ ProcessesAttachments(consumption_scope)

\* C7 (amended): after a failed merge of the attachments group parse aborts
\* before the last merge only when rendering the note fails; otherwise the
\* note, which carries the merge error, replaces the attachments document
\* and the last merge is attempted with the inputs [body document, note];
\* the two merges are attempted only for a non-empty group.
C7_MergeFailureGivesNote ==
    /\ (AttachmentsMergeFailed /\ pc = "failed" /\ Len(merge_log) = 2) =>
          error = "rendering a note"
    /\ (AttachmentsMergeFailed /\ pc # "failed") =>
          IsNote(attachments_pdf, NotMergedNote(MergeErrorDetail))
    /\ (AttachmentsMergeFailed /\ pc \notin {"failed", "merge_final"}) =>
          Len(merge_log) = 3
    /\ (AttachmentsMergeFailed /\ Len(merge_log) = 3) =>
          /\ merge_log[3].pdfs = <<merge_log[1].out, attachments_pdf>>
          /\ IsNote(attachments_pdf, NotMergedNote(MergeErrorDetail))
    /\ Len(merge_log) >= 2 =>
          /\ pdfs # <<>> /\ merge_log[2].pdfs = pdfs
          /\ ProcessesAttachments(consumption_scope)

\* C7 witness: the attachments merge failed and parse completed.
C7_Witness ==
    /\ pc = "done"
    /\ AttachmentsMergeFailed
    /\ Len(merge_log) = 3 /\ merge_log[3].ok

\* C8 (as claimed): a failure of the OCR parser on an attachment never
\* aborts parse.
C8_OcrFailureNeverAborts ==
    ~(pc = "failed" /\ error = "OCR of an attachment")

\* C9 (as claimed): after a successful parse self.text begins with the text
\* header followed directly by the extracted body text, also when the body
\* text is empty.
C9_TextStartsWithHeader ==
    pc = "done" => IsPrefix(Header \o mail_content, text)

\* C10 (as claimed): when the attachments are processed, the body part of
\* self.text is what Tika extracts from the raw message, without its first
\* line and with newline runs collapsed.
C10_BodyTextFromWholeMessage ==
    (pc = "done" /\ ProcessesAttachments(consumption_scope)) =>
        \E i \in DOMAIN tika_log :
            /\ tika_log[i].buffer = "message_payload"
            /\ IsPrefix(Header \o get_mail_and_attachments_content(parsed, tika_log[i].content),
                        text)

\* the calls of the OCR parser for the i-th real attachment
OcrCallsFor(i) == {k \in DOMAIN ocr_log : ocr_log[k].att = i}

\* C11 (as claimed): for each real attachment the OCR parser is called on
\* at most one file, so at most one section per attachment is appended.
C11_SingleOcrPass ==
    \A i \in 1..Len(RealAtts) :
        /\ Cardinality(OcrCallsFor(i)) <= 1
        /\ Cardinality({k \in OcrCallsFor(i) : ocr_log[k].kind = "text"}) <= 1

\* C12: under EVERYTHING no attachment is written to the temporary
\* directory, handed to the OCR parser or converted, the loop of
\* create_attachments_pdfs is never entered, only the body merge is
\* attempted, self.text holds no attachment section, and the document that
\* becomes the archive (or goes into Ghostscript) is the body document.
C12_EverythingSkipsAttachments ==
    consumption_scope = EVERYTHING =>
        /\ ocr_log = <<>> /\ convert_log = <<>>
        /\ att_idx = 0 /\ pdfs = <<>> /\ filenames = <<>>
        /\ attachments_pdf = NoPath
        /\ Len(merge_log) <= 1
        /\ \A i \in 1..Len(RealAtts) :
             /\ ~Exists(tempdir, RealAtts[i].filename)
             /\ ~Exists(tempdir, RealAtts[i].filename \o ".pdf")
        /\ \A k \in DOMAIN text : text[k] # "= Content attachment: "
        /\ \A k \in DOMAIN gs_log :
             gs_log[k].cmd[Len(gs_log[k].cmd)] = merge_log[1].out
        /\ (pc = "done" /\ pdf_a_format = NoFormat) => archive_path = merge_log[1].out

\* C12 witness: a message with a real attachment was parsed under
\* EVERYTHING and the archive is the body document.
C12_Witness ==
    /\ pc = "done"
    /\ consumption_scope = EVERYTHING
    /\ RealAtts # <<>>
    /\ archive_path = merge_log[1].out

\* The attachments that count: disposition "attachment" and a declared
\* content type other than the PKCS7 signature type.
Counted(k) ==
    /\ parsed.attachments[k].content_disposition = "attachment"
    /\ parsed.attachments[k].content_type # PKCS7
CountedPositions == {k \in DOMAIN parsed.attachments : Counted(k)}
\* the positions in parsed.attachments of the counted attachments, in order
CountedInOrder ==
    SelectSeq([k \in 1..Len(parsed.attachments) |-> k], LAMBDA k : Counted(k))
AttachmentsEntries == SelectSeq(get_header(parsed), LAMBDA e : e[1] = "Attachments")
\* the filenames an Attachments value "name (size), name (size)" shows
NamesOfSummary(v) == [i \in 1..((Len(v) + 1) \div 5) |-> v[5 * i - 4]]

\* C13: the header's Attachments entry names exactly the attachments with
\* disposition "attachment" and a declared type other than the signature
\* type, in message order, and is absent when there are none; the loop of
\* create_attachments_pdfs gives its slots to the same attachments in the
\* same order, so inline and signature items appear in neither.
C13_HeaderAndSlotsAgree ==
    LET counted == CountedInOrder
        n == Len(counted)
        header == get_header(parsed)
        entries == SelectSeq(header, LAMBDA e : e[1] = "Attachments")
        names == NamesOfSummary(entries[1][2])
    IN  /\ (n = 0) = (entries = <<>>)
        /\ Len(entries) <= 1
        /\ n > 0 =>
              /\ Len(names) = n
              /\ \A i \in 1..n : names[i] = parsed.attachments[counted[i]].filename
        /\ (pc # "start" /\ pc # "failed" /\ mail_content # <<>>) =>
              IsPrefix(create_txt_header(header), text)
        /\ Len(filenames) <= n
        /\ Len(pdfs) <= Len(filenames)
        /\ \A i \in 1..Len(filenames) :
              LET a == parsed.attachments[counted[i]]
              IN  /\ a.filename # "" => filenames[i] = a.filename
                  /\ tempdir[filenames[i]] = a.payload
                       \/ \E j \in (i + 1)..Len(filenames) : filenames[j] = filenames[i]
        /\ pc \in {"merge_attachments", "merge_final"} => Len(pdfs) = n
        /\ (pc \in {"pdfa", "set_archive", "done"} /\ consumption_scope # EVERYTHING) =>
              Len(pdfs) = n

\* An inline item and a counted attachment: the header names only the
\* latter, and parse ends with one slot.
C13_Witness ==
    /\ pc = "done"
    /\ Len(parsed.attachments) = 2
    /\ Cardinality(CountedPositions) = 1
    /\ parsed.attachments[1].content_disposition = "inline"
    /\ AttachmentsEntries # <<>>
    /\ Len(pdfs) = 1
    /\ IsPrefix(create_txt_header(get_header(parsed)), text)

\* The ParseError of lines 430-432 for a level without a profile.
UnsupportedLevelError(fmt) ==
    "Error creating PDF/A. Ghostscript does not support PDF/A version " \o fmt

\* C14: A2b runs Ghostscript with profile 2 and A3b with profile 3; any other
\* requested level ends parse with the ParseError naming that level, without
\* a Ghostscript run and without an archive path.
C14_UnmappedLevelIsParseError ==
    /\ \A k \in DOMAIN gs_log :
          /\ pdf_a_format = "A2b" => gs_log[k].cmd[3] = "-dPDFA=2"
          /\ pdf_a_format = "A3b" => gs_log[k].cmd[3] = "-dPDFA=3"
    /\ (pdf_a_format # NoFormat /\ pdf_a_format \notin {"A2b", "A3b"}) =>
          /\ pc = "failed"
          /\ error = UnsupportedLevelError(pdf_a_format)
          /\ gs_log = <<>>
          /\ archive_path = NoPath

\* the document the last merge of the invocation wrote
LastMerged == merge_log[Len(merge_log)].out

\* C15: Ghostscript runs at most once, only for a requested level, and on
\* the document of the last merge (the body's under EVERYTHING or without
\* slots, the one of body and attachments otherwise).  A non-zero exit ends
\* parse with the ParseError that shows the command line, and no archive
\* path; after a zero exit the archive path is Ghostscript's output file;
\* without a requested level it is the merged document.
C15_StandardsConversion ==
    /\ Len(gs_log) <= 1
    /\ gs_log # <<>> =>
          LET cmd == gs_log[1].cmd
          IN  /\ pdf_a_format # NoFormat
              /\ merge_log # <<>>
              /\ merge_log[Len(merge_log)].ok
              /\ Len(merge_log) = (IF consumption_scope = EVERYTHING \/ pdfs = <<>>
                                   THEN 1 ELSE 3)
              /\ cmd[Len(cmd)] = LastMerged
              /\ cmd[Len(cmd) - 1] = "final_pdfa.pdf"
              /\ cmd[Len(cmd) - 2] = "-o"
              /\ Exists(tempdir, LastMerged)
              /\ gs_log[1].exit # 0 =>
                    /\ pc = "failed"
                    /\ error = GsFailure(cmd)
                    /\ archive_path = NoPath
              /\ (gs_log[1].exit = 0 /\ pc = "done") =>
                    /\ archive_path = "final_pdfa.pdf"
                    /\ archive_path # LastMerged
                    /\ tempdir[archive_path] = <<"PDF/A of ", LastMerged>>
    /\ (pc \in {"set_archive", "done"} /\ pdf_a_format # NoFormat) => gs_log # <<>>
    /\ (pc = "done" /\ pdf_a_format = NoFormat) =>
          /\ gs_log = <<>>
          /\ archive_path = LastMerged

\* Ghostscript converted the merge of body and attachments, and its output
\* is the archive.
C15_Witness ==
    /\ pc = "done"
    /\ Len(gs_log) = 1
    /\ gs_log[1].exit = 0
    /\ Len(merge_log) = 3
    /\ archive_path = "final_pdfa.pdf"

RenderCalls(index) == {k \in DOMAIN render_log : render_log[k].index = index}
PastTextRendition == pc \notin {"start", "text_rendition"} /\ error # "text extraction"
PastHtmlRendition ==
    /\ PastTextRendition
    /\ pc # "html_rendition"
    /\ error # "rendering the text body"

\* C16: the renderer is asked for the text rendition only when the layout
\* is not HTML_ONLY and the message has a text body, and for the HTML
\* rendition only when the layout is not TEXT_ONLY and the message has an
\* HTML body (and then once each); when either request fails parse fails
\* at that request: nothing is selected or merged and there is no archive
\* path, whatever the other rendition is.
C16_RenditionRendering ==
    /\ RenderCalls("text-mail.html") # {} => pdf_layout # HTML_ONLY /\ parsed.text # <<>>
    /\ RenderCalls("html-mail.html") # {} => pdf_layout # TEXT_ONLY /\ parsed.html # <<>>
    /\ (PastTextRendition /\ pdf_layout # HTML_ONLY /\ parsed.text # <<>>) =>
          Cardinality(RenderCalls("text-mail.html")) = 1
    /\ (PastHtmlRendition /\ pdf_layout # TEXT_ONLY /\ parsed.html # <<>>) =>
          Cardinality(RenderCalls("html-mail.html")) = 1
    /\ \A k \in RenderCalls("text-mail.html") \cup RenderCalls("html-mail.html") :
          ~render_log[k].ok =>
              /\ pc = "failed"
              /\ k = Len(render_log)
              /\ pdfs_to_merge = <<>>
              /\ merge_log = <<>>
              /\ final_pdf = NoPath
              /\ archive_path = NoPath

\* TEXT_HTML: the text rendition, the one the layout prefers, was built,
\* then the rendering of the HTML body failed and so did parse.
C16_Witness ==
    /\ pc = "failed"
    /\ pdf_layout = TEXT_HTML
    /\ TextRenditionExists
    /\ Len(render_log) = 2
    /\ render_log[1].ok
    /\ render_log[2].index = "html-mail.html"
    /\ ~render_log[2].ok

AttachmentsLoopEntered == att_idx >= 1

\* C17: with a mail rule id the layout and the scope parse works with are
\* the rule's; without one the layout is the configured default and the
\* attachments are processed and merged as under the separate scope: the
\* loop is entered, and with at least one slot the archive is the merge of
\* body and attachments.
C17_PoliciesFromRuleOrDefault ==
    pc # "start" =>
        /\ mailrule_id # 0 =>
              /\ pdf_layout = rule.pdf_layout
              /\ consumption_scope = rule.consumption_scope
              /\ (pc \notin {"text_rendition", "html_rendition", "select", "merge_body",
                            "scope", "failed"})
                    => (AttachmentsLoopEntered = (rule.consumption_scope # EVERYTHING))
        /\ mailrule_id = 0 =>
              /\ pdf_layout = default_layout
              /\ consumption_scope \notin ConsumptionScopes
              /\ (pc \notin {"text_rendition", "html_rendition", "select", "merge_body",
                            "scope", "failed"}) => AttachmentsLoopEntered
              /\ (pc = "done" /\ RealAtts # <<>> /\ pdf_a_format = NoFormat) =>
                    /\ Len(merge_log) = 3
                    /\ merge_log[2].pdfs = pdfs
                    /\ merge_log[3].pdfs = <<merge_log[1].out, attachments_pdf>>
                    /\ archive_path = merge_log[3].out
        /\ \A k \in RenderCalls("text-mail.html") : BuildsText(pdf_layout)
        /\ \A k \in RenderCalls("html-mail.html") : BuildsHtml(pdf_layout)

\* A rule whose layout differs from the configured default, used to the end.
C17_Witness ==
    /\ pc = "done"
    /\ mailrule_id # 0
    /\ rule.pdf_layout = HTML_ONLY
    /\ default_layout # rule.pdf_layout
    /\ rule.consumption_scope = ATTACHMENTS_ONLY
    /\ pdfs_to_merge = <<"html-mail.pdf">>
    /\ Len(merge_log) = 3

\* convert_log entries of the i-th real attachment
ConvertCallsFor(i) == {k \in DOMAIN convert_log : convert_log[k].att = i}

\* C18: when the conversion of a real attachment that is not a PDF
\* succeeds, and the iteration completes, the attachment's slot is the
\* converted document "<filename>.pdf"; the note takes the slot only when
\* the conversion itself failed.
C18_PlaceholderOnlyForFailedConversion ==
    \A i \in 1..Len(pdfs) :
        /\ magic_from_buffer(RealAtts[i].payload) # PDF_MIME
        /\ \E k \in ConvertCallsFor(i) : convert_log[k].ok
        => pdfs[i] = filenames[i] \o ".pdf"

\* the files the i-th iteration of the loop wrote or handed on
ResourcesOf(i) == {filenames[i], pdfs[i]}
\* what the i-th slot has to show: the payload of a PDF, the conversion of
\* anything else
OwnContent(i) ==
    IF magic_from_buffer(RealAtts[i].payload) = PDF_MIME THEN RealAtts[i].payload
    ELSE <<"pdf of ">> \o RealAtts[i].payload

\* C19: the attachments of one message are written to, and converted into,
\* files of their own, so each slot of the attachments group shows the
\* content of its own attachment, also when two attachments have the same
\* filename or one is named like the conversion target of another.
C19_SlotsHoldOwnContent ==
    \A i \in 1..Len(pdfs) :
        /\ \A j \in 1..Len(pdfs) : i # j => ResourcesOf(i) \cap ResourcesOf(j) = {}
        /\ pdfs[i] \in {filenames[i], filenames[i] \o ".pdf"} =>
              tempdir[pdfs[i]] = OwnContent(i)

LabelsOf(header) == [i \in 1..Len(header) |-> header[i][1]]
ExpectedLabels ==
    <<"From", "Subject", "To">>
    \o (IF parsed.cc_values # <<>> THEN <<"CC">> ELSE <<>>)
    \o <<"Date">>
    \o (IF CountedPositions # {} THEN <<"Attachments">> ELSE <<>>)

\* C20: get_header gives From, Subject, To, CC, Date, Attachments in this
\* order, each at most once; CC only for a message with cc recipients,
\* Attachments only for a message with a real attachment, the other four
\* always, From showing "(NO SENDER PROVIDED)" for a message without
\* sender; self.text and the text rendition's page begin with that header.
C20_HeaderOrder ==
    LET header == get_header(parsed)
    IN  /\ LabelsOf(header) = ExpectedLabels
        /\ header[1][2] = (IF parsed.from_values = "" THEN <<"(NO SENDER PROVIDED)">>
                           ELSE <<parsed.from_values>>)
        /\ header[2][2] = <<parsed.subject>>
        /\ (pc # "start" /\ pc # "failed" /\ mail_content # <<>>) =>
              IsPrefix(create_txt_header(header), text)
        /\ Exists(tempdir, "text-mail.html") =>
              IsPrefix(create_html_header(header), tempdir["text-mail.html"])

\* A message without sender, with two CC recipients and a real attachment,
\* parsed to the end.
C20_Witness ==
    /\ pc = "done"
    /\ parsed.from_values = ""
    /\ Len(parsed.cc_values) = 2
    /\ CountedPositions # {}
    /\ LabelsOf(get_header(parsed)) = <<"From", "Subject", "To", "CC", "Date", "Attachments">>
    /\ IsPrefix(<<"From", ": ", "(NO SENDER PROVIDED)", NL, "Subject", ": ">>, text)

HasNewlineRun(t) == \E i \in 1..(Len(t) - 1) : t[i] = NL /\ t[i + 1] = NL

\* C21: strip_duplicate_newlines is idempotent and leaves no two newlines
\* next to each other: for every text body, and for the body text parse
\* got from it, collapsing again changes nothing.
C21_CollapseIdempotent ==
    LET once == strip_duplicate_newlines(parsed.text)
    IN  /\ strip_duplicate_newlines(once) = once
        /\ ~HasNewlineRun(once)
        /\ (pc # "start" /\ parsed.text # <<>>) => mail_content = once
        /\ strip_duplicate_newlines(mail_content) = mail_content
        /\ ~HasNewlineRun(mail_content)

\* A text body with three newlines in a row, collapsed by parse.
C21_Witness ==
    /\ pc = "done"
    /\ \E i \in 1..(Len(parsed.text) - 2) :
          parsed.text[i] = NL /\ parsed.text[i + 1] = NL /\ parsed.text[i + 2] = NL
    /\ mail_content = strip_duplicate_newlines(parsed.text)
    /\ Len(mail_content) = Len(parsed.text) - 2

====
